---- MODULE Spec2Model ----
(***************************************************************************)
(* Model of docs/inspo/003_yt_as_immersion_content.py: a batch script that *)
(* reads a list of video ids, fetches each video's subtitles, asks a       *)
(* completion service for vocabulary per subtitle line, builds Resource /  *)
(* Vocab / Translation / Note records with sequential ids in four global   *)
(* lists, and writes the lists to four JSONL files.                        *)
(*                                                                         *)
(* The two services the script calls are the model's environment: a        *)
(* transcript fetch returns any short transcript or raises, a completion   *)
(* call returns any of a set of responses or raises. The input file is     *)
(* taken to be readable and the writer's file operations to succeed.       *)
(*                                                                         *)
(* Encoding of Python values:                                              *)
(*  - a str is a TLA+ string; str.strip() and str(int) are computed;       *)
(*  - None, where a str is expected (an id a create_* function returns),   *)
(*    is the reserved string None, which no str of the model equals;       *)
(*  - None, where a list is expected, is the empty sequence: the code      *)
(*    reads such a parameter only through its truth value;                 *)
(*  - a value parsed from JSON is a record tagged by its type in field t;  *)
(*  - an optional dict key that the code leaves out is left out of the     *)
(*    record (records of one list may have different domains).             *)
(***************************************************************************)
EXTENDS Integers, Sequences, FiniteSets, TLC

\* ------------------------------------------------------------------ bounds

\* Longest video list read from the input file.
MaxVideos == 3
\* Most transcript entries one fetch returns.
MaxLines == 2

\* --------------------------------------------------------- Python values

None == "<None>"

\* bool(v) of a str-or-None value
Truthy(v) == v # None /\ v # ""

Range(s) == {s[i] : i \in 1..Len(s)}

IsSpace(c) == c = " "

RECURSIVE LStrip(_)
LStrip(s) ==
    IF Len(s) > 0 /\ IsSpace(SubSeq(s, 1, 1)) THEN LStrip(SubSeq(s, 2, Len(s))) ELSE s

RECURSIVE RStrip(_)
RStrip(s) ==
    IF Len(s) > 0 /\ IsSpace(SubSeq(s, Len(s), Len(s)))
    THEN RStrip(SubSeq(s, 1, Len(s) - 1))
    ELSE s

\* str.strip()
Strip(s) == RStrip(LStrip(s))

Digits == <<"0", "1", "2", "3", "4", "5", "6", "7", "8", "9">>

\* str(n) for n >= 0
RECURSIVE IntToStr(_)
IntToStr(n) ==
    IF n < 10 THEN Digits[n + 1]
    ELSE IntToStr(n \div 10) \o Digits[(n % 10) + 1]

\* ------------------------------------------------------------ JSON values
\* What json.loads returns, tagged by type. A JSON object is a record over
\* the keys the model uses; a key the object does not have holds JAbsent.

JNull == [t |-> "null"]
JAbsent == [t |-> "absent"]
JStr(s) == [t |-> "str", s |-> s]
JNum(n) == [t |-> "num", n |-> n]
JList(items) == [t |-> "list", items |-> items]
JObj(f) == [t |-> "obj", f |-> f]

\* key in obj
JHas(obj, key) == obj.f[key].t # "absent"

\* bool(v) of a parsed JSON value
JTruthy(v) ==
    CASE v.t = "null" -> FALSE
      [] v.t = "str" -> v.s # ""
      [] v.t = "num" -> v.n # 0
      [] v.t = "list" -> v.items # <<>>
      [] v.t = "obj" -> \E k \in DOMAIN v.f : JHas(v, k)

\* obj.get(key): the value, or None when the key is absent
JGet(obj, key) == IF JHas(obj, key) THEN obj.f[key] ELSE JNull

\* a or b
JOr(a, b) == IF JTruthy(a) THEN a ELSE b

\* ------------------------------------------------------------ VocabObject
\* The result of an expression that may raise: raised, or a value.

Raised == [raised |-> TRUE, value |-> <<>>]
Returned(v) == [raised |-> FALSE, value |-> v]

\* VocabObject.__init__: both arguments are stripped; .strip() on a value
\* that is not a str (None, a number, ...) raises AttributeError.
VocabObject(original, translation) ==
    IF original.t = "str" /\ translation.t = "str"
    THEN Returned([original |-> Strip(original.s),
                   translation |-> Strip(translation.s)])
    ELSE Raised

\* The list comprehension of lines 191, 193 and 195 over a list of parsed
\* elements: obj.get raises on an element that is no dict; an element with
\* neither a truthy 'original' nor a truthy 'word' is filtered out; the
\* first raise abandons the whole comprehension.
RECURSIVE ComprehendItems(_)
ComprehendItems(items) ==
    IF items = <<>> THEN Returned(<<>>)
    ELSE LET obj == Head(items)
             rest == ComprehendItems(Tail(items))
         IN IF obj.t # "obj" THEN Raised
            ELSE IF ~(JTruthy(JGet(obj, "original")) \/ JTruthy(JGet(obj, "word")))
            THEN rest
            ELSE LET vo == VocabObject(JOr(JGet(obj, "original"), JGet(obj, "word")),
                                       JGet(obj, "translation"))
                 IN IF vo.raised \/ rest.raised THEN Raised
                    ELSE Returned(<<vo.value>> \o rest.value)

\* The comprehension over any parsed value: a list is iterated; iterating a
\* non-empty str or dict yields str elements, on which obj.get raises; an
\* empty str or dict yields nothing; None or a number is not iterable.
Comprehend(v) ==
    CASE v.t = "list" -> ComprehendItems(v.items)
      [] v.t \in {"str", "obj"} -> IF JTruthy(v) THEN Raised ELSE Returned(<<>>)
      [] OTHER -> Raised

\* ------------------------------------------------- extract_vocab_from_line
\* A completion call ends in one of: the call raising, content that is not
\* JSON, or content that json.loads parses to a value.

CallFailed == [kind |-> "call_failed", parsed |-> JNull]
InvalidJson == [kind |-> "invalid_json", parsed |-> JNull]
Json(v) == [kind |-> "json", parsed |-> v]

\* The body of the try block, lines 178-197.
ExtractTryBody(resp) ==
    IF resp.kind # "json" THEN Raised
    ELSE LET parsed == resp.parsed
         IN CASE parsed.t = "list" -> Comprehend(parsed)
              [] parsed.t = "obj" ->
                    IF JHas(parsed, "vocabulary") THEN Comprehend(parsed.f["vocabulary"])
                    ELSE IF JHas(parsed, "words") THEN Comprehend(parsed.f["words"])
                    ELSE Returned(<<>>)
              \* 'vocabulary' in "<a str>" is a substring test, false for
              \* every str of the model, and so is 'words' in it
              [] parsed.t = "str" -> Returned(<<>>)
              \* 'vocabulary' in None / in a number raises TypeError
              [] OTHER -> Raised

\* The try block without its except clause: an exception leaves the function.
ExtractWithoutExcept(resp) ==
    LET r == ExtractTryBody(resp)
    IN [raised |-> r.raised, value |-> r.value, logged |-> FALSE]

\* extract_vocab_from_line: the try body, with every exception turned into
\* a printed error (logged) and an empty list by the except clause of
\* lines 198-201.
extract_vocab_from_line(resp) ==
    LET r == ExtractTryBody(resp)
    IN IF r.raised THEN [raised |-> FALSE, value |-> <<>>, logged |-> TRUE]
       ELSE [raised |-> FALSE, value |-> r.value, logged |-> FALSE]

\* ------------------------------------------------------------ environment

\* os.getenv('OPENAI_API_KEY'): unset, set to the empty string, or a key
ApiKeyValues == {None, "", "sk-key"}

\* the video ids of the input file, in file order
VideoIdAt(i) == "vid" \o IntToStr(i)
VideoLists == {[i \in 1..n |-> VideoIdAt(i)] : n \in 0..MaxVideos}

\* entry.text of a transcript entry
EntryTexts == {"", " ", "hola "}
Transcripts == UNION {[1..n -> EntryTexts] : n \in 0..MaxLines}

\* objects a completion response may hold
Obj(original, word, translation) ==
    JObj([original |-> original, word |-> word, translation |-> translation])
ObjPlain == Obj(JStr("a"), JAbsent, JStr("x"))
ObjPadded == Obj(JStr(" a"), JStr("b"), JStr("x "))
ObjWord == Obj(JStr(""), JStr("a "), JStr(" "))
ObjNoOriginal == Obj(JAbsent, JAbsent, JStr("x"))
ObjNullTranslation == Obj(JStr("a"), JAbsent, JNull)
ObjNoTranslation == Obj(JAbsent, JStr("b"), JAbsent)
Objs == {ObjPlain, ObjPadded, ObjWord, ObjNoOriginal, ObjNullTranslation,
         ObjNoTranslation}

ShortObjSeqs == {<<>>} \cup {<<o>> : o \in Objs}
ObjSeqs == ShortObjSeqs \cup {<<o, p>> : o \in Objs, p \in Objs}

\* a top-level JSON object with the keys 'vocabulary' and 'words'
Dict(vocabulary, words) == JObj([vocabulary |-> vocabulary, words |-> words])

ParsedValues ==
    {JList(s) : s \in ObjSeqs}
    \cup {Dict(JList(s), JAbsent) : s \in ShortObjSeqs}
    \cup {Dict(JAbsent, JList(s)) : s \in ShortObjSeqs}
    \cup {Dict(JList(s), JList(<<ObjWord>>)) : s \in ShortObjSeqs}
    \cup {Dict(JList(<<ObjPlain, ObjNoOriginal>>), JAbsent),
          Dict(JAbsent, JList(<<ObjNoOriginal, ObjWord>>)),
          Dict(JAbsent, JAbsent), Dict(JNull, JList(<<ObjPlain>>)),
          Dict(JStr(""), JAbsent), JList(<<JStr("a")>>),
          JNum(7), JStr("hi"), JNull}

Responses == {CallFailed, InvalidJson} \cup {Json(v) : v \in ParsedValues}

\* ------------------------------------------------------- module constants

VIDEO_LIST_TXT == "data_in/apc_ar.txt"
RETURN_AFTER_TWO_VIDEOS == TRUE
\* filename.split("_") of the stem 'apc_ar'
TARGET_LANG_CODE == "apc"
VIDEO_SUBTITLE_LANGUAGE == "ar"

\* ------------------------------------------------------------------ state

VARIABLES
    resource_data, vocab_data, translation_data, note_data,  \* the four lists
    resource_id, vocab_id, translation_id, note_id,          \* the id counters
    api_key,            \* the environment's OPENAI_API_KEY
    video_ids,          \* main: the ids read from VIDEO_LIST_TXT
    pc,                 \* where main is
    idx,                \* main: the for loop's index (0-based, as enumerate)
    lines,              \* process_video: the downloaded subtitle lines
    line_idx,           \* process_video: lines already sent to the extractor
    all_vocab,          \* process_video: the VocabObjects extracted so far
    unique_vocab,       \* process_video: unique_vocab.values(), insertion order
    needed_vocab_ids,   \* process_video: ids of the entries converted so far
    vocab_at_entry,     \* len(vocab_data) when process_video was entered
    files,              \* what save_jsonl_files wrote; <<>> before it ran
    exit_code,          \* <<>> while running, then <<main's return value>>
    fetch_log,          \* the calls of ytt_api.fetch: video index and outcome
    extract_errors      \* the "Error extracting vocabulary" lines printed

data == <<resource_data, vocab_data, translation_data, note_data>>
counters == <<resource_id, vocab_id, translation_id, note_id>>
locals == <<lines, line_idx, all_vocab, unique_vocab, needed_vocab_ids, vocab_at_entry>>
vars == <<data, counters, api_key, video_ids, pc, idx, locals, files, exit_code,
          fetch_log, extract_errors>>

\* The module's global lists and counters, as one value the create_*
\* functions read and return.
Globals ==
    [resource_data |-> resource_data, vocab_data |-> vocab_data,
     translation_data |-> translation_data, note_data |-> note_data,
     resource_id |-> resource_id, vocab_id |-> vocab_id,
     translation_id |-> translation_id, note_id |-> note_id]

SetGlobals(g) ==
    /\ resource_data' = g.resource_data
    /\ vocab_data' = g.vocab_data
    /\ translation_data' = g.translation_data
    /\ note_data' = g.note_data
    /\ resource_id' = g.resource_id
    /\ vocab_id' = g.vocab_id
    /\ translation_id' = g.translation_id
    /\ note_id' = g.note_id

\* ------------------------------------------------------------- id counters
\* Each returns the globals after the call (g) and the returned value (ret).

get_next_resource_id(g) ==
    [g |-> [g EXCEPT !.resource_id = @ + 1], ret |-> IntToStr(g.resource_id + 1)]

get_next_vocab_id(g) ==
    [g |-> [g EXCEPT !.vocab_id = @ + 1], ret |-> IntToStr(g.vocab_id + 1)]

get_next_translation_id(g) ==
    [g |-> [g EXCEPT !.translation_id = @ + 1], ret |-> IntToStr(g.translation_id + 1)]

get_next_note_id(g) ==
    [g |-> [g EXCEPT !.note_id = @ + 1], ret |-> IntToStr(g.note_id + 1)]

\* ---------------------------------------------------------------- create_*

\* rec with the key of extra added when cond holds: "if x: entry[key] = x"
WithKeyIf(rec, cond, extra) == IF cond THEN rec @@ extra ELSE rec

\* create_note(content), note_type and show_before_exercise left at None
create_note(g, content) ==
    IF ~Truthy(content) THEN [g |-> g, ret |-> None]
    ELSE LET n == get_next_note_id(g)
             note_entry == [id |-> n.ret, content |-> content]
         IN [g |-> [n.g EXCEPT !.note_data = Append(@, note_entry)],
             ret |-> note_entry.id]

\* create_translation taking the next id before it looks at the content.
create_translation_id_first(g, content) ==
    LET n == get_next_translation_id(g)
        translation_entry == [id |-> n.ret, content |-> content]
    IN IF ~Truthy(content) THEN [g |-> n.g, ret |-> None]
       ELSE [g |-> [n.g EXCEPT !.translation_data = Append(@, translation_entry)],
             ret |-> translation_entry.id]

\* create_translation without the test of its content.
create_translation_always(g, content) ==
    LET n == get_next_translation_id(g)
        translation_entry == [id |-> n.ret, content |-> content]
    IN [g |-> [n.g EXCEPT !.translation_data = Append(@, translation_entry)],
        ret |-> translation_entry.id]

\* create_translation(content), notes left at None
create_translation(g, content) ==
    IF ~Truthy(content) THEN [g |-> g, ret |-> None]
    ELSE LET n == get_next_translation_id(g)
             translation_entry == [id |-> n.ret, content |-> content]
         IN [g |-> [n.g EXCEPT !.translation_data = Append(@, translation_entry)],
             ret |-> translation_entry.id]

\* create_vocab(language, content, considered_word=..., translations=...,
\* priority=...) with considered_word and priority given (not None) and
\* considered_character, considered_sentence and notes left at None
create_vocab(g, language, content, considered_word, translations, priority) ==
    LET n == get_next_vocab_id(g)
        base == [id |-> n.ret, language |-> language, content |-> content,
                 consideredWord |-> considered_word, priority |-> priority]
        vocab_entry == WithKeyIf(base, translations # <<>>,
                                 [translations |-> translations])
    IN [g |-> [n.g EXCEPT !.vocab_data = Append(@, vocab_entry)],
        ret |-> vocab_entry.id]

\* create_resource forgetting the vocab key.
create_resource_without_vocab(g, language, title, content, priority, vocab, notes) ==
    LET n == get_next_resource_id(g)
        base == [id |-> n.ret, isImmersionContent |-> TRUE,
                 language |-> language, title |-> title, priority |-> priority]
        e1 == WithKeyIf(base, Truthy(content), [content |-> content])
        resource_entry == WithKeyIf(e1, notes # <<>>, [notes |-> notes])
    IN [g |-> [n.g EXCEPT !.resource_data = Append(@, resource_entry)],
        ret |-> resource_entry.id]

\* create_resource(language, title, content=..., priority=..., vocab=...,
\* notes=...) with priority given (not None), link and fact_cards left at None
create_resource(g, language, title, content, priority, vocab, notes) ==
    LET n == get_next_resource_id(g)
        base == [id |-> n.ret, isImmersionContent |-> TRUE,
                 language |-> language, title |-> title, priority |-> priority]
        e1 == WithKeyIf(base, Truthy(content), [content |-> content])
        e2 == WithKeyIf(e1, vocab # <<>>, [vocab |-> vocab])
        resource_entry == WithKeyIf(e2, notes # <<>>, [notes |-> notes])
    IN [g |-> [n.g EXCEPT !.resource_data = Append(@, resource_entry)],
        ret |-> resource_entry.id]

\* convert_to_vocab_entry passing [translation_id] without testing it.
convert_without_id_test(g, vocab_obj, target_lang_code) ==
    LET t == create_translation(g, vocab_obj.translation)
    IN create_vocab(t.g, target_lang_code, vocab_obj.original, TRUE, <<t.ret>>, 1)

\* convert_to_vocab_entry(vocab_obj, target_lang_code)
convert_to_vocab_entry(g, vocab_obj, target_lang_code) ==
    LET t == create_translation(g, vocab_obj.translation)
    IN create_vocab(t.g, target_lang_code, vocab_obj.original, TRUE,
                    IF Truthy(t.ret) THEN <<t.ret>> ELSE <<>>, 1)

\* ----------------------------------------------------------- process_video

\* download_subtitles: the stripped texts of the entries that are not blank
RECURSIVE SubtitleLines(_)
SubtitleLines(transcript) ==
    IF transcript = <<>> THEN <<>>
    ELSE (IF Strip(Head(transcript)) # "" THEN <<Strip(Head(transcript))>> ELSE <<>>)
         \o SubtitleLines(Tail(transcript))

\* The unique_vocab loop keyed on the original text alone.
RECURSIVE UniqueByOriginal(_, _)
UniqueByOriginal(seen, rest) ==
    IF rest = <<>> THEN seen
    ELSE IF \E i \in 1..Len(seen) : seen[i].original = Head(rest).original
         THEN UniqueByOriginal(seen, Tail(rest))
         ELSE UniqueByOriginal(Append(seen, Head(rest)), Tail(rest))

\* The unique_vocab loop of lines 240-244: the first VocabObject of each
\* (original, translation) key, in order of first appearance.
RECURSIVE UniqueVocab(_, _)
UniqueVocab(seen, rest) ==
    IF rest = <<>> THEN seen
    ELSE LET vocab_obj == Head(rest)
             key == <<vocab_obj.original, vocab_obj.translation>>
         IN IF \E i \in 1..Len(seen) :
                    <<seen[i].original, seen[i].translation>> = key
            THEN UniqueVocab(seen, Tail(rest))
            ELSE UniqueVocab(Append(seen, vocab_obj), Tail(rest))

NoLocals ==
    /\ lines' = <<>>
    /\ line_idx' = 0
    /\ all_vocab' = <<>>
    /\ unique_vocab' = <<>>
    /\ needed_vocab_ids' = <<>>
    /\ vocab_at_entry' = 0

\* -------------------------------------------------------------------- main

\* get_openai_client without the test of the key.
get_openai_client_unchecked(key) == Returned("client")

\* get_openai_client: raises ValueError when the key is unset or empty
get_openai_client(key) == IF ~Truthy(key) THEN Raised ELSE Returned("client")

\* No inner except clause: the exception reaches main's outer one, which
\* returns 1.
AbortRun ==
    /\ UNCHANGED idx
    /\ pc' = "done"
    /\ exit_code' = <<1>>

\* The except clause of lines 317-319: the video is skipped and the for
\* loop continues with the next index.
SkipVideo ==
    /\ idx' = idx + 1
    /\ pc' = "loop"
    /\ UNCHANGED exit_code

\* Lines 321-324, reached only when process_video returned: leave the loop
\* when the debug option is set and this was index 1 or later.
AfterVideo ==
    IF RETURN_AFTER_TWO_VIDEOS /\ idx >= 1
    THEN pc' = "save" /\ UNCHANGED idx
    ELSE pc' = "loop" /\ idx' = idx + 1

Init ==
    /\ resource_data = <<>> /\ vocab_data = <<>>
    /\ translation_data = <<>> /\ note_data = <<>>
    /\ resource_id = 0 /\ vocab_id = 0 /\ translation_id = 0 /\ note_id = 0
    /\ api_key \in ApiKeyValues
    /\ video_ids \in VideoLists
    /\ pc = "main"
    /\ idx = 0
    /\ lines = <<>> /\ line_idx = 0 /\ all_vocab = <<>> /\ unique_vocab = <<>>
    /\ needed_vocab_ids = <<>> /\ vocab_at_entry = 0
    /\ files = <<>>
    /\ exit_code = <<>>
    /\ fetch_log = <<>>
    /\ extract_errors = 0

\* main, lines 299-307: the ids are read, then the client is made; a
\* missing key raises into the outer except clause, which returns 1.
MainStart ==
    /\ pc = "main"
    /\ IF get_openai_client(api_key).raised
       THEN pc' = "done" /\ exit_code' = <<1>>
       ELSE pc' = "loop" /\ UNCHANGED exit_code
    /\ UNCHANGED <<data, counters, api_key, video_ids, idx, locals, files,
                   fetch_log, extract_errors>>

\* The for loop of line 310 is exhausted.
LoopExit ==
    /\ pc = "loop"
    /\ idx = Len(video_ids)
    /\ pc' = "save"
    /\ UNCHANGED <<data, counters, api_key, video_ids, idx, locals, files,
                   exit_code, fetch_log, extract_errors>>

\* process_video, lines 220-224, when ytt_api.fetch raises: download_subtitles
\* re-raises, process_video ends, main's except clause skips the video.
FetchFail ==
    /\ pc = "loop"
    /\ idx < Len(video_ids)
    /\ fetch_log' = Append(fetch_log, [idx |-> idx, ok |-> FALSE])
    /\ SkipVideo
    /\ UNCHANGED <<data, counters, api_key, video_ids, locals, files,
                   extract_errors>>

\* process_video, lines 220-231, when ytt_api.fetch returns transcript.
FetchOk(transcript) ==
    /\ pc = "loop"
    /\ idx < Len(video_ids)
    /\ fetch_log' = Append(fetch_log, [idx |-> idx, ok |-> TRUE])
    /\ lines' = SubtitleLines(transcript)
    /\ line_idx' = 0
    /\ all_vocab' = <<>>
    /\ vocab_at_entry' = Len(vocab_data)
    /\ pc' = "extract"
    /\ UNCHANGED <<data, counters, api_key, video_ids, idx, unique_vocab,
                   needed_vocab_ids, files, exit_code, extract_errors>>

\* One round of the loop of lines 232-235: the next line is sent to the
\* completion service, which answers resp. An exception leaving
\* extract_vocab_from_line would leave process_video too.
ExtractLine(resp) ==
    /\ pc = "extract"
    /\ line_idx < Len(lines)
    /\ LET vocab_objs == extract_vocab_from_line(resp)
       IN /\ extract_errors' = extract_errors + (IF vocab_objs.logged THEN 1 ELSE 0)
          /\ IF vocab_objs.raised
             THEN SkipVideo /\ NoLocals
             ELSE /\ all_vocab' = all_vocab \o vocab_objs.value
                  /\ line_idx' = line_idx + 1
                  /\ UNCHANGED <<pc, idx, exit_code, lines, unique_vocab,
                                 needed_vocab_ids, vocab_at_entry>>
    /\ UNCHANGED <<data, counters, api_key, video_ids, files, fetch_log>>

\* Lines 239-244, after the last line: the duplicates are dropped.
Aggregate ==
    /\ pc = "extract"
    /\ line_idx = Len(lines)
    /\ unique_vocab' = UniqueVocab(<<>>, all_vocab)
    /\ pc' = "convert"
    /\ UNCHANGED <<data, counters, api_key, video_ids, idx, lines, line_idx,
                   all_vocab, needed_vocab_ids, vocab_at_entry, files, exit_code,
                   fetch_log, extract_errors>>

\* One element of the comprehension of lines 247-248.
ConvertEntry ==
    /\ pc = "convert"
    /\ Len(needed_vocab_ids) < Len(unique_vocab)
    /\ LET c == convert_to_vocab_entry(Globals,
                    unique_vocab[Len(needed_vocab_ids) + 1], TARGET_LANG_CODE)
       IN /\ SetGlobals(c.g)
          /\ needed_vocab_ids' = Append(needed_vocab_ids, c.ret)
    /\ UNCHANGED <<api_key, video_ids, pc, idx, lines, line_idx, all_vocab,
                   unique_vocab, vocab_at_entry, files, exit_code, fetch_log,
                   extract_errors>>

\* Lines 250-263 and 321-324: the video's note and resource are created,
\* process_video returns and main goes on.
FinishVideo ==
    /\ pc = "convert"
    /\ Len(needed_vocab_ids) = Len(unique_vocab)
    /\ LET video_id == video_ids[idx + 1]
           n == create_note(Globals,
                    "YouTube Video ID: " \o video_id \o "\nSubtitle language: "
                        \o VIDEO_SUBTITLE_LANGUAGE)
           r == create_resource(n.g, TARGET_LANG_CODE,
                    "YouTube Video - " \o video_id,
                    "Watch this video: https://www.youtube.com/watch?v=" \o video_id,
                    1, needed_vocab_ids,
                    IF Truthy(n.ret) THEN <<n.ret>> ELSE <<>>)
       IN SetGlobals(r.g)
    /\ NoLocals
    /\ AfterVideo
    /\ UNCHANGED <<api_key, video_ids, files, exit_code, fetch_log,
                   extract_errors>>

\* save_jsonl_files and main's return 0, lines 326-331.
Save ==
    /\ pc = "save"
    /\ files' = <<[resources |-> resource_data, vocab |-> vocab_data,
                   translations |-> translation_data, notes |-> note_data]>>
    /\ exit_code' = <<0>>
    /\ pc' = "done"
    /\ UNCHANGED <<data, counters, api_key, video_ids, idx, locals, fetch_log,
                   extract_errors>>

Next ==
    \/ MainStart
    \/ LoopExit
    \/ FetchFail
    \/ \E transcript \in Transcripts : FetchOk(transcript)
    \/ \E resp \in Responses : ExtractLine(resp)
    \/ Aggregate
    \/ ConvertEntry
    \/ FinishVideo
    \/ Save

Spec == Init /\ [][Next]_vars

\* ================================================================= claims

Ids(list) == {list[i].id : i \in 1..Len(list)}
VocabOf(resource) == IF "vocab" \in DOMAIN resource THEN resource.vocab ELSE <<>>
NotesOf(resource) == IF "notes" \in DOMAIN resource THEN resource.notes ELSE <<>>
TranslationsOf(vocab) ==
    IF "translations" \in DOMAIN vocab THEN vocab.translations ELSE <<>>
FailedFetches == {i \in 1..Len(fetch_log) : ~fetch_log[i].ok}
BetweenVideos == pc \in {"loop", "save", "done"}

DenseIds(list, counter) ==
    /\ counter = Len(list)
    /\ \A i \in 1..Len(list) : list[i].id = IntToStr(i)

\* C1: in each of the four lists the i-th record has the id str(i), and the
\* list's counter equals its length: ids are 1, 2, ..., n in list order with
\* no gap and no reuse, whatever was skipped and whatever created nothing.
C1_IdsAreDense ==
    /\ DenseIds(resource_data, resource_id)
    /\ DenseIds(vocab_data, vocab_id)
    /\ DenseIds(translation_data, translation_id)
    /\ DenseIds(note_data, note_id)

\* A second video has been built after a skipped one, and a Vocab was made
\* whose empty translation created no Translation.
C1_Witness ==
    /\ Len(resource_data) = 2
    /\ FailedFetches # {}
    /\ Len(vocab_data) >= 3
    /\ Len(translation_data) < Len(vocab_data)

\* C2: every id in a Resource's vocab list is the id of a Vocab record,
\* every id in a Resource's notes list is the id of a Note record, and every
\* id in a Vocab's translations list is the id of a Translation record.
C2_ReferencesExist ==
    /\ \A i \in 1..Len(resource_data) :
          /\ Range(VocabOf(resource_data[i])) \subseteq Ids(vocab_data)
          /\ Range(NotesOf(resource_data[i])) \subseteq Ids(note_data)
    /\ \A i \in 1..Len(vocab_data) :
          Range(TranslationsOf(vocab_data[i])) \subseteq Ids(translation_data)

\* A Resource lists two Vocabs and a note, one Vocab with a translation and
\* one without.
C2_Witness ==
    \E i \in 1..Len(resource_data) :
        /\ Len(VocabOf(resource_data[i])) = 2
        /\ Len(NotesOf(resource_data[i])) = 1
        /\ \E j, k \in 1..Len(vocab_data) :
              /\ {vocab_data[j].id, vocab_data[k].id} \subseteq Range(VocabOf(resource_data[i]))
              /\ TranslationsOf(vocab_data[j]) # <<>>
              /\ TranslationsOf(vocab_data[k]) = <<>>

\* the places of the Resources' vocab lists that hold the id
PlacesOf(id) ==
    {<<k, j>> \in (1..Len(resource_data)) \X (1..Len(vocab_data)) :
        j <= Len(VocabOf(resource_data[k])) /\ VocabOf(resource_data[k])[j] = id}

\* C10: between two videos and at the writer, every Vocab id is in exactly
\* one place of exactly one Resource's vocab list, each vocab list is a run
\* of consecutive ascending ids, and the k-th Resource lists exactly the
\* k-th Note, there being as many Notes as Resources.
C10_ResourcesPartitionVocab ==
    BetweenVideos =>
        /\ \A i \in 1..Len(vocab_data) : Cardinality(PlacesOf(vocab_data[i].id)) = 1
        /\ \A k \in 1..Len(resource_data) :
              LET vocab == VocabOf(resource_data[k])
              IN \E first \in 0..Len(vocab_data) :
                    \A j \in 1..Len(vocab) : vocab[j] = IntToStr(first + j)
        /\ Len(note_data) = Len(resource_data)
        /\ \A k \in 1..Len(resource_data) :
              NotesOf(resource_data[k]) = <<note_data[k].id>>

\* The writer is reached with two Resources that list two Vocabs each.
C10_Witness ==
    /\ pc = "save"
    /\ Len(resource_data) = 2
    /\ \A k \in 1..2 : Len(VocabOf(resource_data[k])) = 2

AllConverted == pc = "convert" /\ Len(needed_vocab_ids) = Len(unique_vocab)

\* C3: the pairs extracted from a video's lines are trimmed, and when the
\* video's last pair has been converted the number of Vocab records added
\* since process_video was entered is the number of distinct extracted
\* pairs, whatever the lists held before the video.
C3_VocabCountIsDistinctPairs ==
    /\ \A i \in 1..Len(all_vocab) :
          /\ Strip(all_vocab[i].original) = all_vocab[i].original
          /\ Strip(all_vocab[i].translation) = all_vocab[i].translation
    /\ AllConverted =>
          Len(vocab_data) - vocab_at_entry = Cardinality(Range(all_vocab))

\* A later video repeats a pair on its own lines, a pair an earlier video
\* already made a Vocab of, and gets a new Vocab for it.
C3_Witness ==
    /\ AllConverted
    /\ vocab_at_entry = 2
    /\ Len(all_vocab) = 4
    /\ Cardinality(Range(all_vocab)) = 2
    /\ \A i \in 1..2 :
          /\ vocab_data[i].content = vocab_data[vocab_at_entry + i].content
          /\ vocab_data[i].id # vocab_data[vocab_at_entry + i].id

\* C6, as claimed: every Vocab record has consideredWord=true, priority=1
\* and a translations list holding exactly one Translation id.
C6_EveryVocabHasOneTranslation ==
    \A i \in 1..Len(vocab_data) :
        /\ vocab_data[i].consideredWord = TRUE
        /\ vocab_data[i].priority = 1
        /\ Len(TranslationsOf(vocab_data[i])) = 1
        /\ Range(TranslationsOf(vocab_data[i])) \subseteq Ids(translation_data)

\* C6, amended: every Vocab record has consideredWord=true and priority=1;
\* the Vocab made of a pair whose translation text is not empty lists
\* exactly one Translation id, that of a Translation holding the text; the
\* Vocab made of a pair whose translation text is empty after trimming has
\* no translations key, and no Translation was created for it.
C6_OneTranslationUnlessEmpty ==
    /\ \A i \in 1..Len(vocab_data) :
          /\ vocab_data[i].consideredWord = TRUE
          /\ vocab_data[i].priority = 1
          /\ "translations" \in DOMAIN vocab_data[i] =>
                /\ Len(vocab_data[i].translations) = 1
                /\ vocab_data[i].translations[1] \in Ids(translation_data)
    /\ Len(translation_data) =
          Cardinality({i \in 1..Len(vocab_data) : "translations" \in DOMAIN vocab_data[i]})
    /\ pc = "convert" =>
          \A j \in 1..Len(needed_vocab_ids) :
              LET vocab == vocab_data[vocab_at_entry + j]
                  pair == unique_vocab[j]
              IN /\ vocab.id = needed_vocab_ids[j]
                 /\ vocab.content = pair.original
                 /\ IF pair.translation # ""
                    THEN \E t \in 1..Len(translation_data) :
                            /\ vocab.translations = <<translation_data[t].id>>
                            /\ translation_data[t].content = pair.translation
                    ELSE "translations" \notin DOMAIN vocab

\* Both kinds of pair have been converted in one video.
C6_Witness ==
    /\ AllConverted
    /\ \E j, k \in 1..Len(unique_vocab) :
          /\ unique_vocab[j].translation = ""
          /\ unique_vocab[k].translation # ""

\* the sequence of objects the claim takes from a parsed response
ClaimedSequence(parsed) ==
    CASE parsed.t = "list" -> parsed
      [] parsed.t = "obj" /\ JHas(parsed, "vocabulary") -> parsed.f["vocabulary"]
      [] parsed.t = "obj" /\ JHas(parsed, "words") -> parsed.f["words"]
      [] OTHER -> JList(<<>>)

\* the objects the claim accepts: a truthy 'original' or a truthy 'word',
\* and a 'translation' field of any value
ClaimedAccepted(obj) ==
    /\ obj.t = "obj"
    /\ JTruthy(JGet(obj, "original")) \/ JTruthy(JGet(obj, "word"))
    /\ JHas(obj, "translation")

\* C7, as claimed: whatever the completion service answers, the line adds
\* one pair for each accepted object of the sequence picked from the parsed
\* response, the other objects adding and removing nothing.
C7_EveryAcceptedObjectYieldsAPair ==
    [][\A resp \in Responses :
          (resp.kind = "json" /\ ClaimedSequence(resp.parsed).t = "list"
              /\ ExtractLine(resp)) =>
             LET items == ClaimedSequence(resp.parsed).items
             IN Len(all_vocab') - Len(all_vocab) =
                   Cardinality({i \in 1..Len(items) : ClaimedAccepted(items[i])})]_vars

\* C9, as claimed: no video after the first two is ever fetched.
C9_OnlyFirstTwoVideosAttempted ==
    \A i \in 1..Len(fetch_log) : fetch_log[i].idx <= 1

OkFetches == {i \in 1..Len(fetch_log) : fetch_log[i].ok}

\* one Resource and one Note for each video whose transcript was fetched
OneResourcePerFetchedVideo ==
    BetweenVideos =>
        /\ Len(resource_data) = Cardinality(OkFetches)
        /\ Len(note_data) = Cardinality(OkFetches)

Written ==
    files = <<[resources |-> resource_data, vocab |-> vocab_data,
               translations |-> translation_data, notes |-> note_data]>>

\* a step in which a transcript fetch failed
FetchFailedStep ==
    /\ Len(fetch_log') = Len(fetch_log) + 1
    /\ ~fetch_log'[Len(fetch_log')].ok

\* What main still has to do, as a triple that every step makes smaller in
\* dictionary order: the rounds of the for loop left (and the writer and the
\* return after them), the phases left in the round, the items left in the
\* phase.
Remaining ==
    CASE pc = "main" -> <<Len(video_ids) + 3, 0, 0>>
      [] pc = "loop" -> <<Len(video_ids) - idx + 2, 3, 0>>
      [] pc = "extract" -> <<Len(video_ids) - idx + 2, 2, Len(lines) - line_idx>>
      [] pc = "convert" ->
            <<Len(video_ids) - idx + 2, 1, Len(unique_vocab) - Len(needed_vocab_ids)>>
      [] pc = "save" -> <<1, 0, 0>>
      [] pc = "done" -> <<0, 0, 0>>

LexLess(a, b) ==
    \/ a[1] < b[1]
    \/ a[1] = b[1] /\ a[2] < b[2]
    \/ a[1] = b[1] /\ a[2] = b[2] /\ a[3] < b[3]

\* C4: the step in which a transcript fetch fails leaves the four lists and
\* the four counters as they were and moves the loop to the next index; no
\* Resource or Note exists for a video whose fetch failed; the run goes on
\* to its end from there (until main has returned a step is possible, and
\* every step leaves less to do); and a run in which a fetch was made ends
\* with the files written and exit code 0.
C4_FailedFetchSkipsVideo ==
    /\ [][FetchFailedStep =>
            /\ UNCHANGED <<data, counters>>
            /\ idx' = idx + 1
            /\ pc' = "loop"]_vars
    /\ []OneResourcePerFetchedVideo
    /\ [](pc # "done" => ENABLED Next)
    /\ [][LexLess(Remaining', Remaining)]_vars
    /\ [](\A i \in 1..3 : Remaining[i] >= 0)
    /\ [](pc = "done" /\ fetch_log # <<>> => exit_code = <<0>> /\ Written)

\* The run has ended with exit code 0 after a failed fetch that was followed
\* by a video that was built.
C4_Witness ==
    /\ pc = "done"
    /\ exit_code = <<0>>
    /\ Written
    /\ \E i \in FailedFetches : \E j \in OkFetches : i < j
    /\ Len(resource_data) = 1

\* the responses of the claim: the call failed, the content is not JSON, or
\* the parsed value is no list and has neither key
FailingResponses ==
    {resp \in Responses :
        \/ resp.kind \in {"call_failed", "invalid_json"}
        \/ /\ resp.parsed.t # "list"
           /\ ~(resp.parsed.t = "obj"
                  /\ (JHas(resp.parsed, "vocabulary") \/ JHas(resp.parsed, "words")))}

\* C5: a line whose completion call fails, answers no JSON or answers no
\* accepted shape adds no pair, raises nothing (process_video stays in its
\* line loop, at the next line) and changes no list; every line has been
\* sent when the video's pairs are aggregated; and every video whose
\* transcript was fetched gets its Note and its Resource.
C5_FailedExtractionYieldsNothing ==
    /\ [][\A resp \in FailingResponses :
            ExtractLine(resp) =>
               /\ all_vocab' = all_vocab
               /\ line_idx' = line_idx + 1
               /\ pc' = "extract"
               /\ UNCHANGED <<data, counters, lines, idx>>]_vars
    /\ [](pc = "convert" => line_idx = Len(lines))
    /\ []OneResourcePerFetchedVideo

\* The one video fetched had a line whose extraction failed and another
\* line that gave a pair, and has its Resource and Note.
C5_Witness ==
    /\ BetweenVideos
    /\ Len(fetch_log) = 1
    /\ extract_errors = 1
    /\ Len(resource_data) = 1
    /\ Len(note_data) = 1
    /\ VocabOf(resource_data[1]) # <<>>

\* C8: with OPENAI_API_KEY unset or empty, main never gets past the start:
\* no transcript is fetched, no line is sent to the completion service (the
\* line loop is never entered), the lists stay empty and the counters 0, no
\* file is written, and main ends with exit code 1.
C8_NoKeyNoWork ==
    ~Truthy(api_key) =>
        /\ pc \in {"main", "done"}
        /\ fetch_log = <<>>
        /\ line_idx = 0 /\ extract_errors = 0
        /\ data = <<<<>>, <<>>, <<>>, <<>>>>
        /\ counters = <<0, 0, 0, 0>>
        /\ files = <<>>
        /\ pc = "done" => exit_code = <<1>>

\* main has ended without a key and with videos to process.
C8_Witness ==
    /\ api_key = None
    /\ Len(video_ids) >= 2
    /\ pc = "done"
    /\ exit_code = <<1>>

====
